---- MODULE Spec2Model ----
(***************************************************************************)
(* Model of prometheus/src/cluster_metrics.rs: the vote record resolver    *)
(* get_vote_state and the cluster metrics writer write_cluster_metrics.    *)
(* One action per write_metric call of write_cluster_metrics; the sink is  *)
(* the sequence of metric families written so far.                         *)
(***************************************************************************)
EXTENDS Integers, Sequences, FiniteSets, TLC

VARIABLES
    banks_with_commitments, \* one bank (account snapshot) per commitment level
    cluster_info,           \* [id, version]: the node's identity and gossip version
    vote_accounts,          \* the tracked HashSet, as the sequence its iter() yields
    identity_info,          \* IdentityInfoMap: identity pubkey -> ValidatorInfo
    pc,                     \* the write_metric call the invocation is about to make
    idx,                    \* position of the `for vote_account` loop
    out,                    \* the sink: families written, in order
    result,                 \* "running", "Ok" or "Err": the io::Result of the call
    calls,                  \* write_metric calls this invocation has made
    failed_at,              \* number of the write_metric call that failed (0: none)
    run,                    \* 1: first invocation, 2: re-invocation
    first_out,              \* the sink of the first invocation, kept for comparison
    first_iter,             \* the iteration order the first invocation saw
    same_set,               \* the re-invocation got the very same HashSet instance
    query,                  \* resolver specification: the (bank, vote_pubkey) asked
    resolved                \* resolver specification: what get_vote_state returned

vars == <<banks_with_commitments, cluster_info, vote_accounts, identity_info, pc,
          idx, out, result, calls, failed_at, run, first_out, first_iter,
          same_set, query, resolved>>

-----------------------------------------------------------------------------
(* Bounds and input domains *)

MaxVotes == 2

VoteKeys == {"voteA", "voteB"}
NodeKeys == {"nodeX", "nodeY"}
IdentityKey == "self"
DefaultPubkey == "11111111111111111111111111111111"
AllKeys == VoteKeys \cup NodeKeys \cup {IdentityKey, DefaultPubkey}

None == [some |-> FALSE]
Some(x) == [some |-> TRUE, val |-> x]

\* Result<&VoteState, _> of VoteAccount::vote_state()
Unreadable == [ok |-> FALSE]
Readable(vs) == [ok |-> TRUE, val |-> vs]

\* the i-th vote of a history lands on slot 100 + i
VoteHistory(n) == [i \in 1..n |-> [slot |-> 100 + i, confirmation_count |-> n + 1 - i]]
VoteHistories == {VoteHistory(n) : n \in 0..MaxVotes}

\* epoch_credits: (epoch, credits, prev_credits) per epoch
CreditHistory(n) == [i \in 1..n |-> [epoch |-> i, credits |-> 40 * i, prev_credits |-> 40 * (i - 1)]]

Stakes == {1500000000, 750000000}

\* a vote-account entry of Bank::vote_accounts(): (activated_stake, VoteAccount)
VoteStates(hists, credits) ==
    [node_pubkey : NodeKeys, votes : hists, epoch_credits : credits]
Entries(stakes, hists, credits) ==
    [activated_stake : stakes,
     vote_state : {Unreadable} \cup {Readable(vs) : vs \in VoteStates(hists, credits)}]

\* every map from a subset of the vote keys to an entry
VoteAccountMaps(entries) == UNION {[S -> entries] : S \in SUBSET VoteKeys}

\* Bank::get_balance of each level: distinct per level and per account
BalanceTable(level) ==
    [k \in AllKeys |->
        CASE k = "voteA" -> 1250000000 + level
          [] k = "voteB" -> 300000000 + level
          [] k = IdentityKey -> 2000000000 + level
          [] OTHER -> 0]

Bank(level, vas) == [vote_accounts |-> vas, balances |-> BalanceTable(level)]

\* the inputs of the writer: votes either none or a full history
WriterEntries ==
    Entries({1500000000}, {VoteHistory(0), VoteHistory(MaxVotes)}, {CreditHistory(2)})
\* the inputs of the resolver: every history length, stake and credit history
ResolverEntries ==
    Entries(Stakes, VoteHistories, {CreditHistory(0), CreditHistory(2)})

IdentityInfoMaps == {<<>>, [k \in {"nodeX"} |-> [name |-> "Alice", keybase |-> "alice_kb"]]}
Versions == {None, Some("1.14.5")}

RECURSIVE Perms(_)
Perms(S) ==
    IF S = {} THEN {<<>>}
    ELSE UNION {{<<x>> \o p : p \in Perms(S \ {x})} : x \in S}

Range(f) == {f[i] : i \in DOMAIN f}

-----------------------------------------------------------------------------
(* External collaborators, as the calls of cluster_metrics.rs use them *)

CommitmentLevels == <<"finalized", "confirmed">>
LAMPORTS_PER_SOL == 1000000000
\* the string of Version::default(), whatever the build makes it
VersionDefault == "Version::default()"

default_vote_state == [node_pubkey |-> DefaultPubkey, votes |-> <<>>, epoch_credits |-> <<>>]

\* VoteState::credits(): the credits of the last epoch_credits entry, or 0
credits(vote_state) ==
    IF vote_state.epoch_credits = <<>> THEN 0
    ELSE vote_state.epoch_credits[Len(vote_state.epoch_credits)].credits

get_balance(bank, pubkey) == bank.balances[pubkey]

\* IdentityInfoMap::get
identity_info_get(info, identity) ==
    IF identity \in DOMAIN info THEN Some(info[identity]) ELSE None

\* Metric::new: an integer count, unscaled
Metric_new(v) == [value |-> [whole |-> v, frac |-> 0], labels |-> <<>>]
\* Metric::new_sol: lamports as SOL
Metric_new_sol(lamports) ==
    [value |-> [whole |-> lamports \div LAMPORTS_PER_SOL,
                frac |-> lamports % LAMPORTS_PER_SOL],
     labels |-> <<>>]
with_label(m, key, value) == [m EXCEPT !.labels = Append(@, <<key, value>>)]
with_optional_label(m, key, value) ==
    IF value.some THEN with_label(m, key, value.val) ELSE m

\* BanksWithCommitments::for_each_commitment: f (a map on the banks) on every bank in the fixed level
\* order; a level where f yields None is dropped, the others get the level label
for_each_commitment(bwc, f) ==
    LET per == [l \in 1..Len(bwc) |-> [level |-> l, res |-> f[bwc[l]]]]
        kept == SelectSeq(per, LAMBDA r : r.res.some)
    IN [i \in 1..Len(kept) |->
            with_label(kept[i].res.val, "commitment_level", CommitmentLevels[kept[i].level])]

-----------------------------------------------------------------------------
(* get_vote_state, lines 23-49 *)

\* variant: reads the oldest vote (votes.front()) instead of the last one
get_vote_state_front(bank, vote_pubkey, info) ==
    IF vote_pubkey \notin DOMAIN bank.vote_accounts THEN None
    ELSE
      LET entry == bank.vote_accounts[vote_pubkey]
          vote_state == IF entry.vote_state.ok THEN entry.vote_state.val
                        ELSE default_vote_state
          identity == vote_state.node_pubkey
      IN IF vote_state.votes = <<>> THEN None
         ELSE Some([balance |-> get_balance(bank, vote_pubkey),
                    last_vote |-> vote_state.votes[1].slot,
                    vote_credits |-> credits(vote_state),
                    identity |-> identity,
                    activated_stake |-> entry.activated_stake,
                    validator_info |-> identity_info_get(info, identity)])

get_vote_state(bank, vote_pubkey, info) ==
    IF vote_pubkey \notin DOMAIN bank.vote_accounts THEN None
    ELSE
      LET entry == bank.vote_accounts[vote_pubkey]
          vote_state == IF entry.vote_state.ok THEN entry.vote_state.val
                        ELSE default_vote_state
          identity == vote_state.node_pubkey
          validator_info == identity_info_get(info, identity)
      IN IF vote_state.votes = <<>> THEN None
         ELSE Some([balance |-> get_balance(bank, vote_pubkey),
                    last_vote |-> vote_state.votes[Len(vote_state.votes)].slot,
                    vote_credits |-> credits(vote_state),
                    identity |-> identity,
                    activated_stake |-> entry.activated_stake,
                    validator_info |-> validator_info])

\* vote_info.validator_info.map(|v| v.name)
validator_name(vote_info) ==
    IF vote_info.validator_info.some THEN Some(vote_info.validator_info.val.name)
    ELSE None

-----------------------------------------------------------------------------
(* The metric families of write_cluster_metrics, lines 58-185 *)

MetricFamily(name, help, type_, metrics) ==
    [name |-> name, help |-> help, type_ |-> type_, metrics |-> metrics]

\* lines 58-61: get_node_version(&identity_pubkey).unwrap_or_default()
version_of(ci) == IF ci.version.some THEN ci.version.val ELSE VersionDefault

identity_info_family(ci) ==
    MetricFamily("solana_node_identity_public_key_info",
                 "The node's current identity", "counter",
                 <<with_label(Metric_new(1), "identity_account", ci.id)>>)

identity_balance_family(bwc, ci) ==
    LET f == [bank \in Range(bwc) |-> Some(with_label(Metric_new_sol(get_balance(bank, ci.id)),
                                   "identity_account", ci.id))]
    IN MetricFamily("solana_node_identity_balance_sol",
                    "The balance of the node's identity account", "gauge",
                    for_each_commitment(bwc, f))

\* variant: drops the series when the node has no version info
node_version_family_dropped(ci) ==
    MetricFamily("solana_node_version_info",
                 "The current Solana node's version", "counter",
                 IF ci.version.some
                   THEN <<with_label(Metric_new(1), "version", ci.version.val)>>
                   ELSE <<>>)

node_version_family(ci) ==
    MetricFamily("solana_node_version_info",
                 "The current Solana node's version", "counter",
                 <<with_label(Metric_new(1), "version", version_of(ci))>>)

\* variant: writes an empty validator_name when the lookup has no entry
vote_labels_empty_name(m, vote_info, vote_account) ==
    with_label(
        with_label(with_label(m, "identity_account", vote_info.identity),
                   "vote_account", vote_account),
        "validator_name",
        IF vote_info.validator_info.some THEN vote_info.validator_info.val.name ELSE "")

\* the three labels every per-vote-account series gets, in this order
vote_labels(m, vote_info, vote_account) ==
    with_optional_label(
        with_label(with_label(m, "identity_account", vote_info.identity),
                   "vote_account", vote_account),
        "validator_name", validator_name(vote_info))

\* variant: a level without a record gets a series of slot 0 instead of none
last_vote_family_sentinel(bwc, vote_account, info) ==
    LET f == [bank \in Range(bwc) |->
          LET vote_info == get_vote_state(bank, vote_account, info)
          IN IF ~vote_info.some
               THEN Some(with_label(with_label(Metric_new(0), "identity_account",
                                               DefaultPubkey),
                                    "vote_account", vote_account))
             ELSE Some(vote_labels(Metric_new(vote_info.val.last_vote),
                                   vote_info.val, vote_account))]
    IN MetricFamily("solana_validator_last_vote_slot",
                    "The voted-on slot of the validator's last vote that got included in the chain",
                    "gauge", for_each_commitment(bwc, f))

last_vote_family(bwc, vote_account, info) ==
    LET f == [bank \in Range(bwc) |->
          LET vote_info == get_vote_state(bank, vote_account, info)
          IN IF ~vote_info.some THEN None
             ELSE Some(vote_labels(Metric_new(vote_info.val.last_vote),
                                   vote_info.val, vote_account))]
    IN MetricFamily("solana_validator_last_vote_slot",
                    "The voted-on slot of the validator's last vote that got included in the chain",
                    "gauge", for_each_commitment(bwc, f))

\* variant: the balance of every account of the snapshot, voted or not
vote_balance_family_unvoted(bwc, vote_account, info) ==
    LET f == [bank \in Range(bwc) |->
          LET vote_info == get_vote_state(bank, vote_account, info)
          IN IF vote_info.some
               THEN Some(vote_labels(Metric_new_sol(vote_info.val.balance),
                                     vote_info.val, vote_account))
             ELSE IF vote_account \in DOMAIN bank.vote_accounts
               THEN Some(with_label(with_label(
                            Metric_new_sol(get_balance(bank, vote_account)),
                            "identity_account",
                            IF bank.vote_accounts[vote_account].vote_state.ok
                              THEN bank.vote_accounts[vote_account].vote_state.val.node_pubkey
                              ELSE DefaultPubkey),
                         "vote_account", vote_account))
             ELSE None]
    IN MetricFamily("solana_validator_vote_account_balance_sol",
                    "The balance of the vote account at the given address",
                    "gauge", for_each_commitment(bwc, f))

vote_balance_family(bwc, vote_account, info) ==
    LET f == [bank \in Range(bwc) |->
          LET vote_info == get_vote_state(bank, vote_account, info)
          IN IF ~vote_info.some THEN None
             ELSE Some(vote_labels(Metric_new_sol(vote_info.val.balance),
                                   vote_info.val, vote_account))]
    IN MetricFamily("solana_validator_vote_account_balance_sol",
                    "The balance of the vote account at the given address",
                    "gauge", for_each_commitment(bwc, f))

\* variant: leaves the validator_name label out
vote_credits_family_unnamed(bwc, vote_account, info) ==
    LET f == [bank \in Range(bwc) |->
          LET vote_info == get_vote_state(bank, vote_account, info)
          IN IF ~vote_info.some THEN None
             ELSE Some(with_label(with_label(Metric_new(vote_info.val.vote_credits),
                                             "identity_account", vote_info.val.identity),
                                  "vote_account", vote_account))]
    IN MetricFamily("solana_validator_vote_credits",
                    "The total number of vote credits credited to this vote account",
                    "gauge", for_each_commitment(bwc, f))

vote_credits_family(bwc, vote_account, info) ==
    LET f == [bank \in Range(bwc) |->
          LET vote_info == get_vote_state(bank, vote_account, info)
          IN IF ~vote_info.some THEN None
             ELSE Some(vote_labels(Metric_new(vote_info.val.vote_credits),
                                   vote_info.val, vote_account))]
    IN MetricFamily("solana_validator_vote_credits",
                    "The total number of vote credits credited to this vote account",
                    "gauge", for_each_commitment(bwc, f))

active_stake_family(bwc, vote_account, info) ==
    LET f == [bank \in Range(bwc) |->
          LET vote_info == get_vote_state(bank, vote_account, info)
          IN IF ~vote_info.some THEN None
             ELSE Some(vote_labels(Metric_new_sol(vote_info.val.activated_stake),
                                   vote_info.val, vote_account))]
    IN MetricFamily("solana_validator_active_stake_sol",
                    "The total amount of Sol actively staked to this validator",
                    "gauge", for_each_commitment(bwc, f))

-----------------------------------------------------------------------------
(* write_metric and the statements of write_cluster_metrics *)

\* what one write to the sink can do: succeed, fail before any byte, or fail
\* after a fragment of the family went out
IoOutcomes == {"ok", "fail", "fail_partial"}

Written(family) == [family |-> family, complete |-> TRUE]
Fragment(family) == [family |-> [family EXCEPT !.metrics = <<>>], complete |-> FALSE]

\* write_metric(out, &family)?: on Ok go on to `next`, on Err return it
write_metric(family, io, next, next_idx) ==
    /\ result = "running"
    /\ calls' = calls + 1
    /\ IF io = "ok"
         THEN /\ out' = Append(out, Written(family))
              /\ pc' = next
              /\ idx' = next_idx
              /\ UNCHANGED <<result, failed_at>>
         ELSE /\ out' = IF io = "fail_partial" THEN Append(out, Fragment(family)) ELSE out
              /\ pc' = "done"
              /\ result' = "Err"
              /\ failed_at' = calls + 1
              /\ UNCHANGED idx
    /\ UNCHANGED <<banks_with_commitments, cluster_info, vote_accounts, identity_info,
                   run, first_out, first_iter, same_set, query, resolved>>

\* variant: the second invocation walks the set in the opposite order
current_vote_account_rehashed ==
    IF run = 2 THEN vote_accounts[Len(vote_accounts) + 1 - idx] ELSE vote_accounts[idx]

\* line 101: the account the loop is at
current_vote_account == vote_accounts[idx]

\* variant: the loop stops one account early
loop_next_short(i) == IF i < Len(vote_accounts) THEN "last_vote" ELSE "return"

\* the loop head of line 101: another account, or fall through to Ok(())
loop_next(i) == IF i <= Len(vote_accounts) THEN "last_vote" ELSE "return"

WriteIdentityInfo ==
    /\ pc = "identity_info"
    /\ \E io \in IoOutcomes :
         write_metric(identity_info_family(cluster_info), io, "identity_balance", idx)

WriteIdentityBalance ==
    /\ pc = "identity_balance"
    /\ \E io \in IoOutcomes :
         write_metric(identity_balance_family(banks_with_commitments, cluster_info),
                      io, "node_version", idx)

\* variant: the result of write_metric is dropped instead of returned with `?`
WriteNodeVersion_unchecked ==
    /\ pc = "node_version"
    /\ result = "running"
    /\ calls' = calls + 1
    /\ \E io \in IoOutcomes :
         out' = IF io = "ok" THEN Append(out, Written(node_version_family(cluster_info)))
                ELSE out
    /\ pc' = IF 1 <= Len(vote_accounts) THEN "last_vote" ELSE "return"
    /\ idx' = 1
    /\ UNCHANGED <<banks_with_commitments, cluster_info, vote_accounts, identity_info,
                   result, failed_at, run, first_out, first_iter, same_set, query,
                   resolved>>

WriteNodeVersion ==
    /\ pc = "node_version"
    /\ \E io \in IoOutcomes :
         write_metric(node_version_family(cluster_info), io, loop_next(1), 1)

\* variant: an unreadable vote state is a fault of the call instead of a default
WriteLastVote_strict ==
    /\ pc = "last_vote"
    /\ IF \E l \in 1..Len(banks_with_commitments) :
            /\ vote_accounts[idx] \in DOMAIN banks_with_commitments[l].vote_accounts
            /\ ~banks_with_commitments[l].vote_accounts[vote_accounts[idx]].vote_state.ok
         THEN /\ result = "running"
              /\ result' = "Err"
              /\ pc' = "done"
              /\ UNCHANGED <<banks_with_commitments, cluster_info, vote_accounts,
                             identity_info, idx, out, calls, failed_at, run, first_out,
                             first_iter, same_set, query, resolved>>
         ELSE \E io \in IoOutcomes :
                write_metric(last_vote_family(banks_with_commitments, vote_accounts[idx],
                                              identity_info),
                             io, "vote_balance", idx)

WriteLastVote ==
    /\ pc = "last_vote"
    /\ \E io \in IoOutcomes :
         write_metric(last_vote_family(banks_with_commitments, current_vote_account,
                                       identity_info),
                      io, "vote_balance", idx)

WriteVoteBalance ==
    /\ pc = "vote_balance"
    /\ \E io \in IoOutcomes :
         write_metric(vote_balance_family(banks_with_commitments, current_vote_account,
                                          identity_info),
                      io, "vote_credits", idx)

WriteVoteCredits ==
    /\ pc = "vote_credits"
    /\ \E io \in IoOutcomes :
         write_metric(vote_credits_family(banks_with_commitments, current_vote_account,
                                          identity_info),
                      io, "active_stake", idx)

WriteActiveStake ==
    /\ pc = "active_stake"
    /\ \E io \in IoOutcomes :
         write_metric(active_stake_family(banks_with_commitments, current_vote_account,
                                          identity_info),
                      io, loop_next(idx + 1), idx + 1)

\* line 188: Ok(())
ReturnOk ==
    /\ pc = "return"
    /\ result = "running"
    /\ pc' = "done"
    /\ result' = "Ok"
    /\ UNCHANGED <<banks_with_commitments, cluster_info, vote_accounts, identity_info,
                   idx, out, calls, failed_at, run, first_out, first_iter, same_set,
                   query, resolved>>

\* The caller invokes write_cluster_metrics again with the same snapshots, cluster
\* identity and identity lookup and an equal tracked set: either the very same
\* HashSet (same iteration order) or an equal set built separately, whose
\* iteration order is whatever its own hasher gives.
Reinvoke ==
    /\ pc = "done"
    /\ result = "Ok"
    /\ run = 1
    /\ \E same \in BOOLEAN, order \in Perms(Range(vote_accounts)) :
         /\ same => order = vote_accounts
         /\ same_set' = same
         /\ vote_accounts' = order
    /\ first_out' = out
    /\ first_iter' = vote_accounts
    /\ out' = <<>>
    /\ pc' = "identity_info"
    /\ idx' = 0
    /\ calls' = 0
    /\ result' = "running"
    /\ run' = 2
    /\ UNCHANGED <<banks_with_commitments, cluster_info, identity_info, failed_at,
                   query, resolved>>

\* the resolver on its own: one query of get_vote_state
Resolve ==
    /\ pc = "resolver"
    /\ \E l \in 1..Len(banks_with_commitments), k \in VoteKeys :
         /\ query' = [level |-> l, vote_pubkey |-> k]
         /\ resolved' = get_vote_state(banks_with_commitments[l], k, identity_info)
    /\ UNCHANGED <<banks_with_commitments, cluster_info, vote_accounts, identity_info,
                   pc, idx, out, result, calls, failed_at, run, first_out, first_iter,
                   same_set>>

-----------------------------------------------------------------------------
(* Specifications *)

NoQuery == [level |-> 0, vote_pubkey |-> DefaultPubkey]

InitCommon ==
    /\ idx = 0
    /\ out = <<>>
    /\ calls = 0
    /\ failed_at = 0
    /\ run = 1
    /\ first_out = <<>>
    /\ first_iter = <<>>
    /\ same_set = TRUE
    /\ query = NoQuery
    /\ resolved = None

\* one invocation of write_cluster_metrics on any input
Init ==
    /\ InitCommon
    /\ \E va1, va2 \in VoteAccountMaps(WriterEntries) :
         banks_with_commitments = <<Bank(1, va1), Bank(2, va2)>>
    /\ cluster_info \in [id : {IdentityKey}, version : Versions]
    /\ vote_accounts \in UNION {Perms(S) : S \in SUBSET VoteKeys}
    /\ identity_info \in IdentityInfoMaps
    /\ pc = "identity_info"
    /\ result = "running"

Next ==
    \/ WriteIdentityInfo
    \/ WriteIdentityBalance
    \/ WriteNodeVersion
    \/ WriteLastVote
    \/ WriteVoteBalance
    \/ WriteVoteCredits
    \/ WriteActiveStake
    \/ ReturnOk

Spec == Init /\ [][Next]_vars

\* two invocations in a row, both tracked accounts in the set
InitReinvoke ==
    /\ InitCommon
    /\ \E va1, va2 \in VoteAccountMaps(WriterEntries) :
         banks_with_commitments = <<Bank(1, va1), Bank(2, va2)>>
    /\ cluster_info = [id |-> IdentityKey, version |-> Some("1.14.5")]
    /\ vote_accounts \in Perms(VoteKeys)
    /\ identity_info \in IdentityInfoMaps
    /\ pc = "identity_info"
    /\ result = "running"

NextReinvoke == Next \/ Reinvoke

SpecReinvoke == InitReinvoke /\ [][NextReinvoke]_vars

\* get_vote_state alone, on the full range of vote-account entries
InitResolve ==
    /\ InitCommon
    /\ \E va1 \in VoteAccountMaps(ResolverEntries) :
         banks_with_commitments = <<Bank(1, va1), Bank(2, <<>>)>>
    /\ cluster_info = [id |-> IdentityKey, version |-> None]
    /\ vote_accounts = <<>>
    /\ identity_info \in IdentityInfoMaps
    /\ pc = "resolver"
    /\ result = "running"

NextResolve == Resolve

SpecResolve == InitResolve /\ [][NextResolve]_vars

-----------------------------------------------------------------------------
(* Vocabulary of the properties *)

NumTracked == Len(vote_accounts)
IsVoteFamily(i) == i > 3
\* the tracked account and the kind (1..4) of the family at sink position i > 3
AccountAt(i) == vote_accounts[((i - 4) \div 4) + 1]
KindAt(i) == ((i - 4) % 4) + 1

VoteFamilyNames ==
    <<"solana_validator_last_vote_slot", "solana_validator_vote_account_balance_sol",
      "solana_validator_vote_credits", "solana_validator_active_stake_sol">>
ExpectedName(i) ==
    CASE i = 1 -> "solana_node_identity_public_key_info"
      [] i = 2 -> "solana_node_identity_balance_sol"
      [] i = 3 -> "solana_node_version_info"
      [] OTHER -> VoteFamilyNames[KindAt(i)]

\* the family the i-th write_metric call of the fixed sequence is given
FamilyAt(i) ==
    CASE i = 1 -> identity_info_family(cluster_info)
      [] i = 2 -> identity_balance_family(banks_with_commitments, cluster_info)
      [] i = 3 -> node_version_family(cluster_info)
      [] i > 3 /\ KindAt(i) = 1 ->
           last_vote_family(banks_with_commitments, AccountAt(i), identity_info)
      [] i > 3 /\ KindAt(i) = 2 ->
           vote_balance_family(banks_with_commitments, AccountAt(i), identity_info)
      [] i > 3 /\ KindAt(i) = 3 ->
           vote_credits_family(banks_with_commitments, AccountAt(i), identity_info)
      [] OTHER ->
           active_stake_family(banks_with_commitments, AccountAt(i), identity_info)

HasLabel(m, key) == \E n \in DOMAIN m.labels : m.labels[n][1] = key
LabelOf(m, key) == (CHOOSE pair \in Range(m.labels) : pair[1] = key)[2]
LabelKeys(m) == [n \in DOMAIN m.labels |-> m.labels[n][1]]
LevelIndex(name) == CHOOSE l \in DOMAIN CommitmentLevels : CommitmentLevels[l] = name
LevelOf(m) == LevelIndex(LabelOf(m, "commitment_level"))

\* the account is in the level's vote-account set with a readable state that has votes
InSnapshot(l, a) == a \in DOMAIN banks_with_commitments[l].vote_accounts
EntryOf(l, a) == banks_with_commitments[l].vote_accounts[a]
HasVotes(l, a) ==
    /\ InSnapshot(l, a)
    /\ EntryOf(l, a).vote_state.ok
    /\ Len(EntryOf(l, a).vote_state.val.votes) > 0
\* the levels, in the fixed order, at which get_vote_state yields a record
RecordLevels(a) ==
    SelectSeq([l \in DOMAIN CommitmentLevels |-> l],
              LAMBDA l : get_vote_state(banks_with_commitments[l], a, identity_info).some)

\* the series of family f that carry commitment level l
SeriesAt(f, l) == SelectSeq(f.metrics, LAMBDA m : LevelOf(m) = l)

-----------------------------------------------------------------------------
(* Properties *)

\* C1: when the k-th write to the sink fails, no family after the k-th reaches the
\* sink, the call returns the error, and the k-1 families written before it are
\* still in the sink, complete and as they were written.
C1_AbortOnWriteFailure ==
    result = "Err" =>
       /\ pc = "done"
       /\ failed_at = calls
       /\ failed_at \in 1..(3 + 4 * NumTracked)
       /\ Len(out) \in {failed_at - 1, failed_at}
       /\ \A i \in 1..Len(out) :
            /\ i < failed_at => out[i] = Written(FamilyAt(i))
            /\ i = failed_at => ~out[i].complete /\ out[i].family.name = ExpectedName(i)
       /\ ~ENABLED Next

C1_Witness ==
    /\ result = "Err"
    /\ failed_at = 3
    /\ NumTracked = 2
    /\ Len(out) = 2

\* C2: when every write succeeds the sink holds exactly 3 + 4*N families: identity
\* info, identity balance, node version, then per tracked account, in iteration
\* order, last-vote slot, balance, vote credits, activated stake, contiguous.
C2_EmissionSequence ==
    result = "Ok" =>
       /\ Len(out) = 3 + 4 * NumTracked
       /\ \A i \in 1..Len(out) :
            /\ out[i].complete
            /\ out[i].family.name = ExpectedName(i)
            /\ IsVoteFamily(i) =>
                 \A n \in DOMAIN out[i].family.metrics :
                    LabelOf(out[i].family.metrics[n], "vote_account") = AccountAt(i)

C2_Witness ==
    /\ result = "Ok"
    /\ NumTracked = 2
    /\ Len(out) = 11
    /\ \A i \in 4..11 : Len(out[i].family.metrics) = 2

\* C3: a per-vote-account family has one series per commitment level at which
\* get_vote_state yields a record for the account, none for the other levels, in
\* the fixed level order.
C3_SeriesPerRecordLevel ==
    \A i \in 1..Len(out) :
       (IsVoteFamily(i) /\ out[i].complete) =>
          LET f == out[i].family
              levels == RecordLevels(AccountAt(i))
          IN /\ Len(f.metrics) = Len(levels)
             /\ \A n \in DOMAIN f.metrics :
                  /\ LabelOf(f.metrics[n], "commitment_level") = CommitmentLevels[levels[n]]
                  /\ HasVotes(levels[n], AccountAt(i))
             /\ \A l \in DOMAIN CommitmentLevels :
                  ~HasVotes(l, AccountAt(i)) => SeriesAt(f, l) = <<>>

\* a family with a single series, of the second level: the first level was dropped
C3_Witness ==
    \E i \in 1..Len(out) :
       /\ IsVoteFamily(i) /\ out[i].complete
       /\ Len(out[i].family.metrics) = 1
       /\ LabelOf(out[i].family.metrics[1], "commitment_level") = CommitmentLevels[2]
       /\ InSnapshot(1, AccountAt(i))

\* C4: get_vote_state returns a record iff the key is in the bank's vote-account set
\* and its vote state has a vote; the record then holds the slot of the last vote,
\* the bank's balance of the key, the state's credits and the stake of the entry.
C4_VoteRecord ==
    query.level # 0 =>
       LET l == query.level
           k == query.vote_pubkey
       IN /\ resolved.some <=> HasVotes(l, k)
          /\ resolved.some =>
               LET vs == EntryOf(l, k).vote_state.val
                   r == resolved.val
               IN /\ r.last_vote = 100 + Len(vs.votes)
                  /\ \A n \in DOMAIN vs.votes : vs.votes[n].slot <= r.last_vote
                  /\ r.balance = BalanceTable(l)[k]
                  /\ r.vote_credits = 40 * Len(vs.epoch_credits)
                  /\ r.activated_stake = EntryOf(l, k).activated_stake
                  /\ r.identity = vs.node_pubkey

C4_Witness ==
    /\ query.level # 0
    /\ resolved.some
    /\ Len(EntryOf(query.level, query.vote_pubkey).vote_state.val.votes) >= 2
    /\ resolved.val.vote_credits > 0

\* the identity key get_vote_state reads for account a at level l
NodeOf(l, a) ==
    IF EntryOf(l, a).vote_state.ok THEN EntryOf(l, a).vote_state.val.node_pubkey
    ELSE DefaultPubkey
HasMetadata(l, a) == NodeOf(l, a) \in DOMAIN identity_info

\* every series of level l in the written families of the given name
SeriesOf(name, l) ==
    UNION {{out[i].family.metrics[n] : n \in {n \in DOMAIN out[i].family.metrics :
                                                LevelOf(out[i].family.metrics[n]) = l}} :
           i \in {i \in 1..Len(out) : out[i].complete /\ out[i].family.name = name}}
SeriesFor(name, l, a) == {m \in SeriesOf(name, l) : LabelOf(m, "vote_account") = a}

\* A has votes and metadata, B is in the snapshot without votes and without metadata
TwoAccountCase(l, A, B) ==
    /\ vote_accounts \in Perms({A, B})
    /\ A # B
    /\ HasVotes(l, A) /\ HasMetadata(l, A)
    /\ InSnapshot(l, B) /\ ~HasVotes(l, B) /\ ~HasMetadata(l, B)

\* C5, as the specification states it: one last-vote series (A's), and two balance
\* series (A's and B's), B's without the validator_name label.
C5_AsStated ==
    result = "Ok" =>
       \A l \in DOMAIN CommitmentLevels, A \in VoteKeys, B \in VoteKeys :
          TwoAccountCase(l, A, B) =>
             /\ Cardinality(SeriesOf(VoteFamilyNames[1], l)) = 1
             /\ Cardinality(SeriesFor(VoteFamilyNames[1], l, A)) = 1
             /\ Cardinality(SeriesOf(VoteFamilyNames[2], l)) = 2
             /\ Cardinality(SeriesFor(VoteFamilyNames[2], l, A)) = 1
             /\ \E m \in SeriesFor(VoteFamilyNames[2], l, B) : ~HasLabel(m, "validator_name")

\* C5, amended: the last-vote output and the balance output each hold exactly one
\* series at that level, A's (with the validator_name label), and none for B.
C5_BalanceFollowsVoteRecord ==
    result = "Ok" =>
       \A l \in DOMAIN CommitmentLevels, A \in VoteKeys, B \in VoteKeys :
          TwoAccountCase(l, A, B) =>
             \A k \in {1, 2} :
                /\ Cardinality(SeriesOf(VoteFamilyNames[k], l)) = 1
                /\ Cardinality(SeriesFor(VoteFamilyNames[k], l, A)) = 1
                /\ SeriesFor(VoteFamilyNames[k], l, B) = {}
                /\ \A m \in SeriesFor(VoteFamilyNames[k], l, A) :
                     HasLabel(m, "validator_name")

C5_Witness ==
    /\ result = "Ok"
    /\ \E A \in VoteKeys, B \in VoteKeys :
         /\ TwoAccountCase(1, A, B)
         /\ EntryOf(1, B).vote_state.ok
         /\ get_balance(banks_with_commitments[1], B) > 0

\* C6: every series of the per-vote-account families carries identity_account and
\* vote_account, and carries validator_name exactly when the identity lookup has an
\* entry for the node_pubkey of the vote state at the series' level; the label is
\* then the entry's name, and is never present with an empty value.
C6_Labels ==
    \A i \in 1..Len(out) :
       (IsVoteFamily(i) /\ out[i].complete) =>
          \A n \in DOMAIN out[i].family.metrics :
             LET m == out[i].family.metrics[n]
                 a == AccountAt(i)
                 l == LevelOf(m)
             IN /\ HasLabel(m, "identity_account")
                /\ LabelOf(m, "identity_account") = NodeOf(l, a)
                /\ HasLabel(m, "vote_account")
                /\ LabelOf(m, "vote_account") = a
                /\ HasLabel(m, "validator_name") <=> HasMetadata(l, a)
                /\ HasLabel(m, "validator_name") =>
                     /\ LabelOf(m, "validator_name") = identity_info[NodeOf(l, a)].name
                     /\ LabelOf(m, "validator_name") # ""
                /\ Cardinality(Range(LabelKeys(m))) = Len(m.labels)

\* one family with a named series and an unnamed one
C6_Witness ==
    \E i \in 1..Len(out) :
       /\ IsVoteFamily(i) /\ out[i].complete
       /\ Len(out[i].family.metrics) = 2
       /\ HasLabel(out[i].family.metrics[1], "validator_name")
       /\ ~HasLabel(out[i].family.metrics[2], "validator_name")

\* C7: the call returns an error exactly when a write to the sink failed; as long
\* as no write fails it goes on to Ok whatever the inputs (accounts missing from a
\* snapshot, without votes, without metadata, with an unreadable vote state).
C7_ErrorIffWriteFails ==
    /\ result = "Err" <=> failed_at # 0
    /\ pc = "done" <=> result \in {"Ok", "Err"}
    /\ result = "running" => ENABLED Next
    /\ result = "Ok" => calls = 3 + 4 * NumTracked

C7_Witness ==
    /\ result = "Ok"
    /\ identity_info = <<>>
    /\ \E a \in Range(vote_accounts), b \in Range(vote_accounts) :
         /\ ~InSnapshot(1, a)
         /\ InSnapshot(2, a) /\ ~HasVotes(2, a)
         /\ InSnapshot(1, b) /\ ~EntryOf(1, b).vote_state.ok

C9_AsStated ==
    (~cluster_info.version.some /\ Len(out) >= 3 /\ out[3].complete) =>
       out[3].family.metrics = <<>>

\* C9, amended: without version info the node-version family still has its single
\* series of value 1, labelled with the string of the default version, and no
\* fault is raised: the call ends Ok unless a write fails.
C9_DefaultVersionSeries ==
    ~cluster_info.version.some =>
       /\ (Len(out) >= 3 /\ out[3].complete) =>
            /\ out[3].family.name = "solana_node_version_info"
            /\ Len(out[3].family.metrics) = 1
            /\ out[3].family.metrics[1].value = [whole |-> 1, frac |-> 0]
            /\ out[3].family.metrics[1].labels = <<<<"version", VersionDefault>>>>
       /\ (pc = "done" /\ failed_at = 0) => result = "Ok"

C9_Witness ==
    /\ ~cluster_info.version.some
    /\ result = "Ok"
    /\ Len(out[3].family.metrics) = 1

\* C10: in a successful invocation the four families of a tracked account agree,
\* level by level: all four have one series of that level, with the same labels,
\* or none of them has one.
C10_FamiliesAgree ==
    result = "Ok" =>
       \A j \in 1..NumTracked, l \in DOMAIN CommitmentLevels :
          LET S(k) == SeriesAt(out[3 + 4 * (j - 1) + k].family, l)
          IN \/ \A k \in 1..4 : Len(S(k)) = 1 /\ S(k)[1].labels = S(1)[1].labels
             \/ \A k \in 1..4 : S(k) = <<>>

C10_Witness ==
    /\ result = "Ok"
    /\ \E j \in 1..NumTracked :
         /\ Len(out[3 + 4 * (j - 1) + 1].family.metrics) = 1
         /\ Len(out[3 + 4 * (j - 1) + 4].family.metrics) = 1
         /\ HasLabel(out[3 + 4 * (j - 1) + 3].family.metrics[1], "validator_name")

====
